---- MODULE Spec2Model ----
(***************************************************************************)
(* Hexachess rules engine: Board (Types/MoveResult.h) driven through the   *)
(* AChessGod actor (Actors/ChessGod.cpp).                                  *)
(*                                                                         *)
(* A board_map (std::map<int32, Cell*>) is a function from the keys the    *)
(* map holds to cells; is_valid_position is membership in its DOMAIN.      *)
(* A std::list<int32> is a sequence; push_front prepends.                  *)
(***************************************************************************)
EXTENDS Integers, Sequences, FiniteSets, TLC

(***************************************************************************)
(* Program constants                                                       *)
(***************************************************************************)
median == 5

max == 10

step_x == 256

white_pawn_cell_keys == <<256, 513, 770, 1027, 1284, 1539, 1794, 2049, 2304>>

black_pawn_cell_keys == <<262, 518, 774, 1030, 1286, 1542, 1798, 2054, 2310>>

PieceType == {"none", "pawn", "knight", "bishop", "rook", "queen", "king"}

PieceColor == {"absent", "white", "black"}

Cell == [piece : PieceType, piece_color : PieceColor]

\* Cell() : piece = none, piece_color = absent
NewCell == [piece |-> "none", piece_color |-> "absent"]

\* piece_values with the bishop valued like a rook
piece_values_Bishop5(pt) ==
    CASE pt = "pawn"   -> 1
      [] pt = "knight" -> 3
      [] pt = "bishop" -> 5
      [] pt = "rook"   -> 5
      [] pt = "queen"  -> 9
      [] pt = "king"   -> 100
      [] OTHER         -> 0

piece_values(pt) ==
    CASE pt = "pawn"   -> 1
      [] pt = "knight" -> 3
      [] pt = "bishop" -> 3
      [] pt = "rook"   -> 5
      [] pt = "queen"  -> 9
      [] pt = "king"   -> 100
      [] OTHER         -> 0  \* map operator[] default-inserts 0 for an absent key

(***************************************************************************)
(* Coordinates                                                             *)
(***************************************************************************)
\* (x << 8) + y
to_position_key(x, y) == x * step_x + y

\* key >> 8 (arithmetic shift: floor division)
get_x(key) == key \div step_x

\* key & 0xFF
get_y(key) == key % step_x

to_position(key) == <<get_x(key), get_y(key)>>

PosKey(pos) == to_position_key(pos[1], pos[2])

\* y_max of column x in Board::Board
ColumnTop(x) ==
    LET y_max == median + x
    IN  IF y_max > max THEN max - (y_max % max) ELSE y_max

\* the keys Board::Board creates cells for
BoardKeys == UNION { { to_position_key(x, y) : y \in 0..ColumnTop(x) } : x \in 0..max }

\* Board::Board : every created cell is a fresh empty Cell
EmptyBoard == [k \in BoardKeys |-> NewCell]

is_valid_position(in_board, key) == key \in DOMAIN in_board

(***************************************************************************)
(* Cell predicates                                                         *)
(***************************************************************************)
has_piece(c) == c.piece # "none"

has_piece_of_same_color(c, cell) ==
    /\ c.piece # "none"
    /\ c.piece_color # "absent"
    /\ cell.piece_color # "absent"
    /\ c.piece_color = cell.piece_color

has_piece_of_opposite_color(c, cell) ==
    /\ c.piece # "none"
    /\ c.piece_color # "absent"
    /\ cell.piece_color # "absent"
    /\ c.piece_color # cell.piece_color

get_opposite_color(c) ==
    CASE c.piece_color = "white" -> "black"
      [] c.piece_color = "black" -> "white"
      [] OTHER -> "absent"

(***************************************************************************)
(* Direction functions                                                     *)
(***************************************************************************)
move_vertically_up(key) == key + 1

move_vertically_down(key) == key - 1

move_horizontally_top_right(key) ==
    IF get_x(key) < median THEN key + step_x + 1 ELSE key + step_x

move_horizontally_top_left(key) ==
    IF get_x(key) > median THEN key - step_x + 1 ELSE key - step_x

move_horizontally_bottom_right(key) ==
    IF get_x(key) < median THEN key + step_x ELSE key + step_x - 1

move_horizontally_bottom_left(key) ==
    IF get_x(key) > median THEN key - step_x ELSE key - step_x - 1

move_diagonally_top_right(key) ==
    IF get_x(key) < median THEN key + step_x + 2 ELSE key + step_x + 1

move_diagonally_top_left(key) ==
    IF get_x(key) > median THEN key - step_x + 2 ELSE key - step_x + 1

move_diagonally_bottom_right(key) ==
    IF get_x(key) < median THEN key + step_x - 1 ELSE key + step_x - 2

move_diagonally_bottom_left(key) ==
    IF get_x(key) > median THEN key - step_x - 1 ELSE key - step_x - 2

move_diagonally_right(key) ==
    LET x == get_x(key)
    IN  IF x % 2 = 0
        THEN IF x = median - 1 THEN key + step_x * 2
             ELSE IF x < median THEN key + step_x * 2 + 1
             ELSE key + step_x * 2 - 1
        ELSE IF x < median THEN key + step_x * 2 + 1
             ELSE key + step_x * 2 - 1

\* move_diagonally_left with the median column taken as a column of the right half
move_diagonally_left_MedianOnTheRight(key) ==
    LET x == get_x(key)
    IN  IF x % 2 = 0
        THEN IF x = median + 1 THEN key - step_x * 2
             ELSE IF x < median THEN key - step_x * 2 - 1
             ELSE key - step_x * 2 + 1
        ELSE IF x < median THEN key - step_x * 2 - 1
             ELSE key - step_x * 2 + 1

move_diagonally_left(key) ==
    LET x == get_x(key)
    IN  IF x % 2 = 0
        THEN IF x = median + 1 THEN key - step_x * 2
             ELSE IF x < median THEN key - step_x * 2 - 1
             ELSE key - step_x * 2 + 1
        ELSE IF x <= median THEN key - step_x * 2 - 1
             ELSE key - step_x * 2 + 1

\* a TMoveFn value is the name of the function it points to
TMoveFn(fn, key) ==
    CASE fn = "move_vertically_up"             -> move_vertically_up(key)
      [] fn = "move_vertically_down"           -> move_vertically_down(key)
      [] fn = "move_horizontally_top_right"    -> move_horizontally_top_right(key)
      [] fn = "move_horizontally_top_left"     -> move_horizontally_top_left(key)
      [] fn = "move_horizontally_bottom_right" -> move_horizontally_bottom_right(key)
      [] fn = "move_horizontally_bottom_left"  -> move_horizontally_bottom_left(key)
      [] fn = "move_diagonally_top_right"      -> move_diagonally_top_right(key)
      [] fn = "move_diagonally_top_left"       -> move_diagonally_top_left(key)
      [] fn = "move_diagonally_bottom_right"   -> move_diagonally_bottom_right(key)
      [] fn = "move_diagonally_bottom_left"    -> move_diagonally_bottom_left(key)
      [] fn = "move_diagonally_right"          -> move_diagonally_right(key)
      [] fn = "move_diagonally_left"           -> move_diagonally_left(key)

push_front(l, k) == <<k>> \o l

\* the list that pushing the elements of l to the front of an empty list, one after
\* the other, builds
Reverse(l) == [i \in 1..Len(l) |-> l[Len(l) + 1 - i]]

\* membership test std::find(begin(l), end(l), k) != end(l)
Contains(l, k) == \E i \in 1..Len(l) : l[i] = k

(***************************************************************************)
(* Raw move generation                                                     *)
(***************************************************************************)
add_if_valid(in_board, l, key, cell, can_take) ==
    IF is_valid_position(in_board, key)
    THEN LET c == in_board[key]
         IN  IF has_piece(c)
             THEN IF has_piece_of_opposite_color(c, cell) /\ can_take
                  THEN push_front(l, key)
                  ELSE l
             ELSE push_front(l, key)
    ELSE l

\* add_pawn_take_if_valid that adds the cell as add_if_valid does with can_take
add_pawn_take_if_valid_AlsoEmpty(in_board, l, key, cell) ==
    add_if_valid(in_board, l, key, cell, TRUE)

add_pawn_take_if_valid(in_board, l, key, cell) ==
    IF is_valid_position(in_board, key) /\ has_piece_of_opposite_color(in_board[key], cell)
    THEN push_front(l, key)
    ELSE l

\* is_initial_pawn_cell that looks the key up in both colours' tables
is_initial_pawn_cell_AnyColor(key, cell) ==
    Contains(white_pawn_cell_keys, key) \/ Contains(black_pawn_cell_keys, key)

is_initial_pawn_cell(key, cell) ==
    CASE cell.piece_color = "white" -> Contains(white_pawn_cell_keys, key)
      [] cell.piece_color = "black" -> Contains(black_pawn_cell_keys, key)
      [] OTHER -> FALSE

add_pawn_moves(in_board, l, key, cell) ==
    IF cell.piece_color \notin {"white", "black"}
    THEN l
    ELSE
    LET white    == cell.piece_color = "white"
        fn_move   == IF white THEN "move_vertically_up" ELSE "move_vertically_down"
        fn_take_1 == IF white THEN "move_horizontally_top_left"
                              ELSE "move_horizontally_bottom_left"
        fn_take_2 == IF white THEN "move_horizontally_top_right"
                              ELSE "move_horizontally_bottom_right"
        move == TMoveFn(fn_move, key)
        l1 == IF is_valid_position(in_board, move)
              THEN LET a == add_if_valid(in_board, l, move, cell, FALSE)
                   IN  IF ~has_piece(in_board[move]) /\ is_initial_pawn_cell(key, cell)
                       THEN add_if_valid(in_board, a, TMoveFn(fn_move, move), cell, FALSE)
                       ELSE a
              ELSE l
        l2 == add_pawn_take_if_valid(in_board, l1, TMoveFn(fn_take_1, key), cell)
    IN  add_pawn_take_if_valid(in_board, l2, TMoveFn(fn_take_2, key), cell)

\* SlideLoop that goes on sliding behind a piece it can take
RECURSIVE SlideLoop_NoStop(_, _, _, _)
SlideLoop_NoStop(in_board, current_pos, fn, cell) ==
    IF is_valid_position(in_board, current_pos)
    THEN LET c == in_board[current_pos]
         IN  IF has_piece(c) /\ has_piece_of_same_color(c, cell)
             THEN <<>>
             ELSE <<current_pos>> \o SlideLoop_NoStop(in_board, TMoveFn(fn, current_pos), fn, cell)
    ELSE <<>>

\* the while loop of add_valid_moves for one direction fn, from current_pos: the
\* cells it adds, in the order it adds them
RECURSIVE SlideLoop(_, _, _, _)
SlideLoop(in_board, current_pos, fn, cell) ==
    IF is_valid_position(in_board, current_pos)
    THEN LET c == in_board[current_pos]
         IN  IF has_piece(c)
             THEN IF has_piece_of_same_color(c, cell)
                  THEN <<>>
                  ELSE <<current_pos>>
             ELSE <<current_pos>> \o SlideLoop(in_board, TMoveFn(fn, current_pos), fn, cell)
    ELSE <<>>

\* the for loop of add_valid_moves from index i (1-based) on; every cell a direction
\* adds is pushed to the front of l
RECURSIVE add_valid_moves_from(_, _, _, _, _, _)
add_valid_moves_from(in_board, l, key, fns, i, cell) ==
    IF i > Len(fns)
    THEN l
    ELSE add_valid_moves_from(in_board,
                              Reverse(SlideLoop(in_board, TMoveFn(fns[i], key), fns[i], cell)) \o l,
                              key, fns, i + 1, cell)

add_valid_moves(in_board, l, key, fns, cell) ==
    add_valid_moves_from(in_board, l, key, fns, 1, cell)

bishop_fns ==
    << "move_diagonally_top_right", "move_diagonally_top_left",
       "move_diagonally_bottom_right", "move_diagonally_bottom_left",
       "move_diagonally_right", "move_diagonally_left" >>

rook_fns ==
    << "move_horizontally_top_right", "move_horizontally_top_left",
       "move_horizontally_bottom_right", "move_horizontally_bottom_left",
       "move_vertically_up", "move_vertically_down" >>

\* add_bishop_moves with the first four directions only
add_bishop_moves_FourDirections(in_board, l, key, cell) ==
    add_valid_moves(in_board, l, key, SubSeq(bishop_fns, 1, 4), cell)

add_bishop_moves(in_board, l, key, cell) == add_valid_moves(in_board, l, key, bishop_fns, cell)

add_rook_moves(in_board, l, key, cell) == add_valid_moves(in_board, l, key, rook_fns, cell)

add_queen_moves(in_board, l, key, cell) ==
    add_rook_moves(in_board, add_bishop_moves(in_board, l, key, cell), key, cell)

\* the twelve (two-step prefix, final step) pairs of add_knight_moves, in call order
knight_jumps ==
    << <<"move_vertically_up", "move_horizontally_top_right">>,
       <<"move_vertically_up", "move_horizontally_top_left">>,
       <<"move_vertically_down", "move_horizontally_bottom_right">>,
       <<"move_vertically_down", "move_horizontally_bottom_left">>,
       <<"move_horizontally_top_right", "move_vertically_up">>,
       <<"move_horizontally_top_right", "move_horizontally_bottom_right">>,
       <<"move_horizontally_bottom_right", "move_vertically_down">>,
       <<"move_horizontally_bottom_right", "move_horizontally_top_right">>,
       <<"move_horizontally_bottom_left", "move_vertically_down">>,
       <<"move_horizontally_bottom_left", "move_horizontally_top_left">>,
       <<"move_horizontally_top_left", "move_vertically_up">>,
       <<"move_horizontally_top_left", "move_horizontally_bottom_left">> >>

knight_target(key, j) ==
    TMoveFn(knight_jumps[j][2], TMoveFn(knight_jumps[j][1], TMoveFn(knight_jumps[j][1], key)))

RECURSIVE add_knight_moves_from(_, _, _, _, _)
add_knight_moves_from(in_board, l, key, j, cell) ==
    IF j > Len(knight_jumps)
    THEN l
    ELSE add_knight_moves_from(in_board,
                               add_if_valid(in_board, l, knight_target(key, j), cell, TRUE),
                               key, j + 1, cell)

\* add_knight_moves with the jump targets added without the validity test
RECURSIVE add_knight_moves_Unchecked_from(_, _, _, _, _)
add_knight_moves_Unchecked_from(in_board, l, key, j, cell) ==
    IF j > Len(knight_jumps)
    THEN l
    ELSE add_knight_moves_Unchecked_from(
             in_board,
             IF is_valid_position(in_board, knight_target(key, j))
             THEN add_if_valid(in_board, l, knight_target(key, j), cell, TRUE)
             ELSE push_front(l, knight_target(key, j)),
             key, j + 1, cell)

add_knight_moves_Unchecked(in_board, l, key, cell) ==
    add_knight_moves_Unchecked_from(in_board, l, key, 1, cell)

add_knight_moves(in_board, l, key, cell) == add_knight_moves_from(in_board, l, key, 1, cell)

\* the twelve single steps of add_king_moves, in call order
king_fns ==
    << "move_vertically_up", "move_vertically_down",
       "move_horizontally_top_right", "move_horizontally_top_left",
       "move_horizontally_bottom_right", "move_horizontally_bottom_left",
       "move_diagonally_top_right", "move_diagonally_top_left",
       "move_diagonally_bottom_right", "move_diagonally_bottom_left",
       "move_diagonally_right", "move_diagonally_left" >>

RECURSIVE add_king_moves_from(_, _, _, _, _)
add_king_moves_from(in_board, l, key, i, cell) ==
    IF i > Len(king_fns)
    THEN l
    ELSE add_king_moves_from(in_board,
                             add_if_valid(in_board, l, TMoveFn(king_fns[i], key), cell, TRUE),
                             key, i + 1, cell)

add_king_moves(in_board, l, key, cell) == add_king_moves_from(in_board, l, key, 1, cell)

\* the switch of get_valid_moves: the raw candidate list l
RawMoves(in_board, key) ==
    LET cell == in_board[key]
    IN  CASE cell.piece = "pawn"   -> add_pawn_moves(in_board, <<>>, key, cell)
          [] cell.piece = "bishop" -> add_bishop_moves(in_board, <<>>, key, cell)
          [] cell.piece = "knight" -> add_knight_moves(in_board, <<>>, key, cell)
          [] cell.piece = "rook"   -> add_rook_moves(in_board, <<>>, key, cell)
          [] cell.piece = "queen"  -> add_queen_moves(in_board, <<>>, key, cell)
          [] cell.piece = "king"   -> add_king_moves(in_board, <<>>, key, cell)
          [] OTHER                 -> <<>>

(***************************************************************************)
(* Board operations                                                        *)
(***************************************************************************)
\* the keys of S, largest first: the list push_front builds while the map is
\* iterated in ascending key order
KeyList(S) ==
    [i \in 1..Cardinality(S) |-> CHOOSE k \in S : Cardinality({ j \in S : j > k }) = i - 1]

\* KeyList of the keys Board::Board creates
BoardKeyList == KeyList(BoardKeys)

MapKeyList(in_board) ==
    IF DOMAIN in_board = BoardKeys THEN BoardKeyList ELSE KeyList(DOMAIN in_board)

HasColor(in_board, pc, key) == in_board[key].piece_color = pc

get_piece_keys(in_board, pc) ==
    LET Test(key) == HasColor(in_board, pc, key)
    IN  SelectSeq(MapKeyList(in_board), Test)

\* set_piece without the validity test: in_board[key] makes the entry it writes to
set_piece_Unchecked(in_board, pos, pt, pc) ==
    [k \in DOMAIN in_board \cup {PosKey(pos)} |->
        IF k = PosKey(pos) THEN [piece |-> pt, piece_color |-> pc] ELSE in_board[k]]

\* in_board[key]->set_piece(pt, pc) behind the validity test
set_piece(in_board, pos, pt, pc) ==
    LET key == PosKey(pos)
    IN  IF ~is_valid_position(in_board, key)
        THEN in_board
        ELSE [in_board EXCEPT ![key] = [piece |-> pt, piece_color |-> pc]]

\* the bool set_piece returns
set_piece_result(in_board, pos, pt, pc) == FALSE

\* move_piece that leaves the piece on the source cell
move_piece_KeepsSource(in_board, start, goal) ==
    LET sp == PosKey(start)
    IN  IF is_valid_position(in_board, sp) /\ is_valid_position(in_board, PosKey(goal))
        THEN set_piece(in_board, goal, in_board[sp].piece, in_board[sp].piece_color)
        ELSE in_board

move_piece(in_board, start, goal) ==
    LET sp == PosKey(start)
    IN  IF is_valid_position(in_board, sp) /\ is_valid_position(in_board, PosKey(goal))
        THEN LET pt == in_board[sp].piece
                 pc == in_board[sp].piece_color
                 removed == [in_board EXCEPT ![sp] = NewCell]
             IN  set_piece(removed, goal, pt, pc)
        ELSE in_board

\* the bool move_piece returns
move_piece_result(in_board, start, goal) == TRUE

\* new Cell(*cell) for every entry: a map with the same keys and equal cells
copy_board_map(in_board) == in_board

\* the king search of get_valid_moves: the first king among color_pieces (the loop
\* breaks there), -1 when there is none
FindKing(in_board, color_pieces) ==
    LET kings == { i \in 1..Len(color_pieces) : in_board[color_pieces[i]].piece = "king" }
    IN  IF kings = {}
        THEN -1
        ELSE color_pieces[CHOOSE i \in kings : \A j \in kings : i <= j]

RECURSIVE get_valid_moves(_, _, _, _)
RECURSIVE get_all_piece_move_keys_range(_, _, _, _, _, _)

\* this_map is the Board object's own board_map, in_board the configuration asked about
get_all_piece_move_keys(this_map, in_board, pc, skip_filter) ==
    LET all_piece_keys == get_piece_keys(in_board, pc)
    IN  get_all_piece_move_keys_range(this_map, in_board, all_piece_keys,
                                      1, Len(all_piece_keys), skip_filter)

\* the moves of all_piece_keys[lo..hi], appended in list order (the range is split
\* in two halves, which appends the same lists in the same order)
get_all_piece_move_keys_range(this_map, in_board, all_piece_keys, lo, hi, skip_filter) ==
    IF lo > hi
    THEN <<>>
    ELSE IF lo = hi
    THEN get_valid_moves(this_map, in_board, all_piece_keys[lo], skip_filter)
    ELSE LET mid == (lo + hi) \div 2
         IN  get_all_piece_move_keys_range(this_map, in_board, all_piece_keys, lo, mid, skip_filter)
             \o get_all_piece_move_keys_range(this_map, in_board, all_piece_keys, mid + 1, hi, skip_filter)

can_be_captured(this_map, in_board, key) ==
    LET pc == get_opposite_color(in_board[key])
        all_moves == get_all_piece_move_keys(this_map, in_board, pc, TRUE)
    IN  Contains(all_moves, key)

\* FilterKeeps with the king looked for on its square of before the move
FilterKeeps_StaleKing(this_map, key, cell, king_key, k) ==
    LET board_copy == move_piece(copy_board_map(this_map), to_position(key), to_position(k))
    IN  ~can_be_captured(this_map, board_copy, king_key)

\* FilterKeeps with the attack test made on the board of before the move
FilterKeeps_NoSimulation(this_map, key, cell, king_key, k) ==
    LET final_king_key == IF cell.piece = "king" THEN k ELSE king_key
    IN  ~can_be_captured(this_map, this_map, final_king_key)

\* the body of the filtering loop of get_valid_moves for candidate k: whether k is
\* pushed to filtered_list
FilterKeeps(this_map, key, cell, king_key, k) ==
    LET board_copy == move_piece(copy_board_map(this_map), to_position(key), to_position(k))
        final_king_key == IF cell.piece = "king" THEN k ELSE king_key
    IN  ~can_be_captured(this_map, board_copy, final_king_key)

\* the filtering loop of get_valid_moves over l: the kept candidates, each pushed to
\* the front of filtered_list
FilterLoop(this_map, key, cell, king_key, l) ==
    LET Keeps(k) == FilterKeeps(this_map, key, cell, king_key, k)
    IN  Reverse(SelectSeq(l, Keeps))

\* get_valid_moves that returns nothing when the mover's colour has no king
get_valid_moves_EmptyWithoutKing(this_map, in_board, key, skip_filter) ==
    LET cell == in_board[key]
        l == RawMoves(in_board, key)
    IN  IF skip_filter
        THEN l
        ELSE LET king_key == FindKing(in_board, get_piece_keys(this_map, cell.piece_color))
             IN  IF king_key = -1
                 THEN <<>>
                 ELSE FilterLoop(this_map, key, cell, king_key, l)

get_valid_moves(this_map, in_board, key, skip_filter) ==
    LET cell == in_board[key]
        l == RawMoves(in_board, key)
    IN  IF skip_filter
        THEN l
        ELSE LET color_pieces == get_piece_keys(this_map, cell.piece_color)
                 king_key == FindKing(in_board, color_pieces)
             IN  IF king_key = -1
                 THEN l
                 ELSE FilterLoop(this_map, key, cell, king_key, l)

are_there_valid_moves(this_map, in_board, pc) ==
    Len(get_all_piece_move_keys(this_map, in_board, pc, FALSE)) > 0

\* Board::get_possible_move_sources: the loop runs over all_moves, the destination
\* keys get_all_piece_move_keys returns, and asks get_valid_moves for the moves of
\* whatever stands on each of them
get_possible_move_sources(this_map, in_board, target, pc) ==
    LET all_moves == get_all_piece_move_keys(this_map, in_board, pc, TRUE)
        Reaches(move) == Contains(get_valid_moves(this_map, in_board, move, TRUE), target)
    IN  Reverse(SelectSeq(all_moves, Reaches))

\* EvaluateTerm with the white loop's "score -=" for a capturable king of either colour
EvaluateTerm_SameSign(this_map, in_board, piece_key, sign) ==
    IF in_board[piece_key].piece = "king"
    THEN IF can_be_captured(this_map, in_board, piece_key)
         THEN -piece_values("king")
         ELSE 0
    ELSE sign * piece_values(in_board[piece_key].piece)

\* the body of a loop of evaluate: what piece_key adds to score; sign is 1 in the loop
\* over white_pieces and -1 in the loop over black_pieces
EvaluateTerm(this_map, in_board, piece_key, sign) ==
    IF in_board[piece_key].piece = "king"
    THEN IF can_be_captured(this_map, in_board, piece_key)
         THEN -sign * piece_values("king")
         ELSE 0
    ELSE sign * piece_values(in_board[piece_key].piece)

\* one loop of evaluate over pieces, from index i on
RECURSIVE EvaluateLoop(_, _, _, _, _)
EvaluateLoop(this_map, in_board, pieces, i, sign) ==
    IF i > Len(pieces)
    THEN 0
    ELSE EvaluateTerm(this_map, in_board, pieces[i], sign)
         + EvaluateLoop(this_map, in_board, pieces, i + 1, sign)

evaluate(this_map, in_board) ==
    EvaluateLoop(this_map, in_board, get_piece_keys(in_board, "white"), 1, 1)
    + EvaluateLoop(this_map, in_board, get_piece_keys(in_board, "black"), 1, -1)

(***************************************************************************)
(* Search (UMinimaxAIComponent)                                            *)
(***************************************************************************)
\* struct MoveResult
MoveResult(FromKey, ToKey, Score) == [FromKey |-> FromKey, ToKey |-> ToKey, Score |-> Score]

\* the bound of the window the search starts with, above every score evaluate gives
ScoreInfinity == 1000000

PlayerColor(IsWhitePlayer) == IF IsWhitePlayer THEN "white" ELSE "black"

\* the score a node starts from, and the score of a node whose side has no legal move
WorstScore(IsWhitePlayer) == IF IsWhitePlayer THEN -ScoreInfinity ELSE ScoreInfinity

\* the (FromKey, ToKey) pairs of the side to move: the pieces in get_piece_keys order,
\* the destinations of each in get_valid_moves order; this_map is the board_map of the
\* Board the calls are made on
RECURSIVE SearchMovesFrom(_, _, _, _)
SearchMovesFrom(this_map, in_board, keys, i) ==
    IF i > Len(keys)
    THEN <<>>
    ELSE LET m == get_valid_moves(this_map, in_board, keys[i], FALSE)
         IN  [j \in 1..Len(m) |-> <<keys[i], m[j]>>]
             \o SearchMovesFrom(this_map, in_board, keys, i + 1)

SearchMoves(this_map, in_board, IsWhitePlayer) ==
    SearchMovesFrom(this_map, in_board, get_piece_keys(in_board, PlayerColor(IsWhitePlayer)), 1)

\* the board of the child node: the move made on a copy of the node's board
ChildBoard(in_board, move) ==
    move_piece(copy_board_map(in_board), to_position(move[1]), to_position(move[2]))

\* the child is better for the side to move than the best child so far
Improves(IsWhitePlayer, child, best) ==
    IF IsWhitePlayer THEN child.Score > best.Score ELSE child.Score < best.Score

RECURSIVE MiniMax(_, _, _, _, _, _)
RECURSIVE MiniMaxLoop_BothBounds(_, _, _, _, _, _, _, _, _)
RECURSIVE MiniMaxLoop(_, _, _, _, _, _, _, _, _)

\* MiniMaxLoop that narrows both ends of the window at every node
MiniMaxLoop_BothBounds(this_map, in_board, Depth, IsWhitePlayer, Alpha, Beta, moves, i, best) ==
    IF i > Len(moves)
    THEN best
    ELSE LET child == MiniMax(this_map, ChildBoard(in_board, moves[i]),
                              Depth - 1, ~IsWhitePlayer, Alpha, Beta)
             newBest == IF Improves(IsWhitePlayer, child, best)
                        THEN MoveResult(moves[i][1], moves[i][2], child.Score)
                        ELSE best
             newAlpha == IF newBest.Score > Alpha THEN newBest.Score ELSE Alpha
             newBeta == IF newBest.Score < Beta THEN newBest.Score ELSE Beta
         IN  IF newBeta <= newAlpha
             THEN newBest
             ELSE MiniMaxLoop_BothBounds(this_map, in_board, Depth, IsWhitePlayer,
                                       newAlpha, newBeta, moves, i + 1, newBest)

\* the loop of MiniMax over the moves of the side to move, from index i on: best is
\* the best child so far, kept on a tie; the loop stops once Beta <= Alpha
MiniMaxLoop(this_map, in_board, Depth, IsWhitePlayer, Alpha, Beta, moves, i, best) ==
    IF i > Len(moves)
    THEN best
    ELSE LET child == MiniMax(this_map, ChildBoard(in_board, moves[i]),
                              Depth - 1, ~IsWhitePlayer, Alpha, Beta)
             newBest == IF Improves(IsWhitePlayer, child, best)
                        THEN MoveResult(moves[i][1], moves[i][2], child.Score)
                        ELSE best
             newAlpha == IF IsWhitePlayer /\ newBest.Score > Alpha THEN newBest.Score ELSE Alpha
             newBeta == IF ~IsWhitePlayer /\ newBest.Score < Beta THEN newBest.Score ELSE Beta
         IN  IF newBeta <= newAlpha
             THEN newBest
             ELSE MiniMaxLoop(this_map, in_board, Depth, IsWhitePlayer,
                              newAlpha, newBeta, moves, i + 1, newBest)

\* UMinimaxAIComponent::MiniMax(ActiveBoard, in_board, Depth, IsWhitePlayer, Alpha, Beta);
\* this_map is ActiveBoard's board_map
MiniMax(this_map, in_board, Depth, IsWhitePlayer, Alpha, Beta) ==
    IF Depth = 0
    THEN MoveResult(-1, -1, evaluate(this_map, in_board))
    ELSE LET moves == SearchMoves(this_map, in_board, IsWhitePlayer)
         IN  IF moves = <<>>
             THEN MoveResult(-1, -1, WorstScore(IsWhitePlayer))
             ELSE MiniMaxLoop(this_map, in_board, Depth, IsWhitePlayer, Alpha, Beta,
                              moves, 1, MoveResult(-1, -1, WorstScore(IsWhitePlayer)))

(***************************************************************************)
(* State                                                                   *)
(***************************************************************************)
VARIABLES
    ActiveBoard,   \* AChessGod::ActiveBoard : "nullptr" or "board"
    board_map,     \* the live Board's board_map (<<>> while there is no board)
    fault,         \* the process has died on a read or write through a null pointer
    ret,           \* the call that has just returned to the caller: its name, its
                   \* arguments and its result; [op |-> "none"] between calls
    ai             \* the AI move computation in progress: its position (pc) and its
                   \* locals; [pc |-> "idle"] when there is none

vars == <<ActiveBoard, board_map, fault, ret, ai>>

(***************************************************************************)
(* Bounds of the model                                                     *)
(***************************************************************************)
\* RegisterPiece is not asked to put more than this many pieces on the board
MaxPieces == 2

\* boards of the specification SpecBoards hold at most this many pieces in Region
MaxPlaced == 3

\* the positions the actor's callers pass: four cells around the median column,
\* <<5, 11>> above the board, and <<4, 260>> whose packed key is that of <<5, 4>>
Positions == { <<5, 4>>, <<5, 5>>, <<5, 6>>, <<4, 4>>, <<5, 11>>, <<4, 260>> }

\* EPieceType values; "Other" stands for any value outside the six named ones
EPieceType == {"Pawn", "Knight", "Bishop", "Rook", "Queen", "King", "Other"}

TeamIDs == {0, 1}

\* keys of (5,4) (5,5) (5,6) (4,4)
Region == {1284, 1285, 1286, 1028}

Occupied(in_board) == { k \in DOMAIN in_board : in_board[k].piece # "none" }

\* the null Cell* that map::operator[] inserts for a key the map does not hold
NullCell == [piece |-> "nullptr", piece_color |-> "nullptr"]

\* in_board[key] : inserts a null entry when the key is absent
Subscript(in_board, key) ==
    IF key \in DOMAIN in_board
    THEN in_board
    ELSE [k \in DOMAIN in_board \cup {key} |-> IF k = key THEN NullCell ELSE in_board[k]]

(***************************************************************************)
(* AChessGod                                                               *)
(***************************************************************************)
\* the lambda of RegisterPiece
\* the switch of RegisterPiece with a default that registers no piece type
ToPieceType_DefaultNone(Type) ==
    CASE Type = "Pawn"   -> "pawn"
      [] Type = "Knight" -> "knight"
      [] Type = "Bishop" -> "bishop"
      [] Type = "Rook"   -> "rook"
      [] Type = "Queen"  -> "queen"
      [] Type = "King"   -> "king"
      [] OTHER           -> "none"

ToPieceType(Type) ==
    CASE Type = "Pawn"   -> "pawn"
      [] Type = "Knight" -> "knight"
      [] Type = "Bishop" -> "bishop"
      [] Type = "Rook"   -> "rook"
      [] Type = "Queen"  -> "queen"
      [] Type = "King"   -> "king"
      [] OTHER           -> "pawn"

ToPieceColor(TeamID) == IF TeamID = 0 THEN "white" ELSE "black"

\* the (single-threaded) caller is between two calls: the last call has returned
\* and the game thread is not inside CalculateRandomAIMove's loop
Idle == ~fault /\ ret.op = "none" /\ ai.pc \notin {"random_pick", "random_test"}

\* the caller takes the result of the call that returned
Return ==
    /\ ~fault
    /\ ret.op # "none"
    /\ ret' = [op |-> "none"]
    /\ UNCHANGED <<ActiveBoard, board_map, fault, ai>>

Init ==
    /\ ActiveBoard = "nullptr"
    /\ board_map = <<>>
    /\ fault = FALSE
    /\ ret = [op |-> "none"]
    /\ ai = [pc |-> "idle"]

\* a call through ActiveBoard == nullptr reads the Board's members at address 0
NullBoardCall(name) ==
    /\ ActiveBoard = "nullptr"
    /\ fault' = TRUE
    /\ ret' = [op |-> name]
    /\ UNCHANGED <<ActiveBoard, board_map>>

StartGame ==
    /\ Idle
    /\ UNCHANGED ai
    /\ ActiveBoard' = "board"
    /\ board_map' = EmptyBoard
    \* CreateLogicalBoard overwrites the pointer: a Board it pointed to stays allocated
    /\ ret' = [op |-> "StartGame", leaked |-> ActiveBoard # "nullptr"]
    /\ UNCHANGED fault

EndGame ==
    /\ Idle
    /\ UNCHANGED ai
    /\ IF ActiveBoard # "nullptr"
       THEN ActiveBoard' = "nullptr" /\ board_map' = <<>>
       ELSE UNCHANGED <<ActiveBoard, board_map>>
    /\ ret' = [op |-> "EndGame"]
    /\ UNCHANGED fault

RegisterPiece(X, Y, Type, TeamID) ==
    /\ Idle
    /\ UNCHANGED ai
    /\ \/ NullBoardCall("RegisterPiece")
       \/ /\ ActiveBoard = "board"
          /\ LET after == set_piece(board_map, <<X, Y>>, ToPieceType(Type), ToPieceColor(TeamID))
             IN  /\ Cardinality(Occupied(after)) <= MaxPieces
                 /\ board_map' = after
          /\ ret' = [op |-> "RegisterPiece"]
          /\ UNCHANGED <<ActiveBoard, fault>>

MovePiece(From, To) ==
    /\ Idle
    /\ UNCHANGED ai
    /\ \/ NullBoardCall("MovePiece")
       \/ /\ ActiveBoard = "board"
          /\ board_map' = move_piece(board_map, From, To)
          /\ ret' = [op |-> "MovePiece", from |-> From, to |-> To]
          /\ UNCHANGED <<ActiveBoard, fault>>

\* get_valid_moves(Position&) : keys to positions, each pushed to the front
ToPositions(moves) == Reverse([i \in 1..Len(moves) |-> to_position(moves[i])])

\* Board::get_valid_moves(in_board = board_map, key, skip_filter) on the live board:
\* Cell* cell = in_board[key] inserts a null entry for an absent key, and the
\* switch on cell->get_piece_type() then reads through it
GetValidMoves(key, skip_filter) ==
    /\ Idle
    /\ UNCHANGED ai
    /\ ActiveBoard = "board"
    /\ board_map' = Subscript(board_map, key)
    /\ IF key \in DOMAIN board_map
       THEN /\ ret' = [op |-> "get_valid_moves", key |-> key, skip_filter |-> skip_filter,
                       value |-> get_valid_moves(board_map, board_map, key, skip_filter)]
            /\ UNCHANGED fault
       ELSE /\ ret' = [op |-> "get_valid_moves", key |-> key, skip_filter |-> skip_filter]
            /\ fault' = TRUE
    /\ UNCHANGED ActiveBoard

GetMovesForCell(InPosition) ==
    /\ Idle
    /\ UNCHANGED ai
    /\ \/ NullBoardCall("GetMovesForCell")
       \/ /\ ActiveBoard = "board"
          /\ LET key == PosKey(InPosition)
             IN  /\ board_map' = Subscript(board_map, key)
                 /\ IF key \in DOMAIN board_map
                    THEN /\ ret' = [op |-> "GetMovesForCell", pos |-> InPosition,
                                    value |-> ToPositions(
                                        get_valid_moves(board_map, board_map, key, FALSE))]
                         /\ UNCHANGED fault
                    ELSE /\ ret' = [op |-> "GetMovesForCell", pos |-> InPosition]
                         /\ fault' = TRUE
          /\ UNCHANGED ActiveBoard

\* Board::can_be_captured(in_board = board_map, key) on the live board:
\* in_board[key]->get_opposite_color() reads through the entry operator[] returns
CanBeCaptured(key) ==
    /\ Idle
    /\ UNCHANGED ai
    /\ ActiveBoard = "board"
    /\ board_map' = Subscript(board_map, key)
    /\ IF key \in DOMAIN board_map
       THEN /\ ret' = [op |-> "can_be_captured", key |-> key,
                       value |-> can_be_captured(board_map, board_map, key)]
            /\ UNCHANGED fault
       ELSE /\ ret' = [op |-> "can_be_captured", key |-> key]
            /\ fault' = TRUE
    /\ UNCHANGED ActiveBoard

IsCellUnderAttack(InPosition) ==
    /\ Idle
    /\ UNCHANGED ai
    /\ \/ NullBoardCall("IsCellUnderAttack")
       \/ /\ ActiveBoard = "board"
          /\ LET key == PosKey(InPosition)
             IN  /\ board_map' = Subscript(board_map, key)
                 /\ IF key \in DOMAIN board_map
                    THEN /\ ret' = [op |-> "IsCellUnderAttack", pos |-> InPosition,
                                    value |-> can_be_captured(board_map, board_map, key)]
                         /\ UNCHANGED fault
                    ELSE /\ ret' = [op |-> "IsCellUnderAttack", pos |-> InPosition]
                         /\ fault' = TRUE
          /\ UNCHANGED ActiveBoard

\* Board::evaluate() on the live board
Evaluate ==
    /\ Idle
    /\ UNCHANGED ai
    /\ ActiveBoard = "board"
    /\ ret' = [op |-> "evaluate", value |-> evaluate(board_map, board_map)]
    /\ UNCHANGED <<ActiveBoard, board_map, fault>>

\* Board::get_possible_move_sources(target, pc) on the live board
GetPossibleMoveSources(target, pc) ==
    /\ Idle
    /\ UNCHANGED ai
    /\ ActiveBoard = "board"
    /\ ret' = [op |-> "get_possible_move_sources", target |-> target, pc |-> pc,
                value |-> get_possible_move_sources(board_map, board_map, target, pc)]
    /\ UNCHANGED <<ActiveBoard, board_map, fault>>

Next ==
    \/ StartGame
    \/ EndGame
    \/ \E pos \in Positions, Type \in EPieceType, TeamID \in TeamIDs :
          RegisterPiece(pos[1], pos[2], Type, TeamID)
    \/ \E From \in Positions, To \in Positions : MovePiece(From, To)
    \/ \E pos \in Positions : GetMovesForCell(pos)
    \/ \E pos \in Positions : IsCellUnderAttack(pos)
    \/ Return

Spec == Init /\ [][Next]_vars

(***************************************************************************)
(* SpecBoards: the Board's queries applied to boards drawn from a bounded  *)
(* set: every board with one piece anywhere, and every board with up to    *)
(* MaxPlaced pieces on the cells of Region.                                *)
(***************************************************************************)
Pieces == [piece : PieceType \ {"none"}, piece_color : {"white", "black"}]

\* the boards RegisterPiece can build with pieces on the cells S
BoardsOn(S) == { [k \in BoardKeys |-> IF k \in S THEN f[k] ELSE NewCell] : f \in [S -> Pieces] }

InitBoards ==
    /\ ActiveBoard = "board"
    /\ board_map \in
         UNION { BoardsOn({k}) : k \in BoardKeys }
         \cup UNION { BoardsOn(S) : S \in { T \in SUBSET Region : Cardinality(T) <= MaxPlaced } }
    /\ fault = FALSE
    /\ ret = [op |-> "none"]
    /\ ai = [pc |-> "idle"]

NextBoards ==
    \/ \E key \in Occupied(board_map), skip_filter \in BOOLEAN : GetValidMoves(key, skip_filter)
    \/ \E key \in Occupied(board_map) \cup Region : CanBeCaptured(key)
    \/ Evaluate
    \/ Return

SpecBoards == InitBoards /\ [][NextBoards]_vars

(***************************************************************************)
(* Properties                                                              *)
(***************************************************************************)
ToSet(l) == { l[i] : i \in 1..Len(l) }

KingKeys(in_board, pc) ==
    { k \in DOMAIN in_board : in_board[k].piece = "king" /\ in_board[k].piece_color = pc }

\* a filtered get_valid_moves query has returned its list for the piece on ret.key
FilteredQueryDone ==
    /\ ret.op = "get_valid_moves"
    /\ "value" \in DOMAIN ret
    /\ ~ret.skip_filter

RawQueryDone ==
    /\ ret.op = "get_valid_moves"
    /\ "value" \in DOMAIN ret
    /\ ret.skip_filter

\* C1: on a board with exactly one king of colour c, every destination the
\* filtered get_valid_moves returns for a piece of colour c leads, once that
\* move is applied with move_piece, to a board on which the king of colour c
\* stands and cannot be captured.
C1_FilteredMovesKeepKingSafe ==
    FilteredQueryDone =>
        LET c == board_map[ret.key].piece_color
        IN  Cardinality(KingKeys(board_map, c)) = 1 =>
                \A k \in ToSet(ret.value) :
                    LET after == move_piece(board_map, to_position(ret.key), to_position(k))
                    IN  /\ Cardinality(KingKeys(after, c)) = 1
                        /\ \A kk \in KingKeys(after, c) : ~can_be_captured(after, after, kk)

\* a piece other than the king has lost some but not all of its raw moves to the filter
C1_Witness ==
    /\ FilteredQueryDone
    /\ Cardinality(KingKeys(board_map, board_map[ret.key].piece_color)) = 1
    /\ board_map[ret.key].piece # "king"
    /\ Len(ret.value) > 0
    /\ Len(ret.value) < Len(RawMoves(board_map, ret.key))

\* the cells other than those of keys a and b are the same before and after the step
OthersUnchanged(a, b) ==
    /\ DOMAIN board_map' = DOMAIN board_map
    /\ \A k \in DOMAIN board_map \ {a, b} : board_map'[k] = board_map[k]

\* what a MovePiece(From, To) step does to the board when the keys of From and To
\* are both cells and differ, or one of them is no cell
MovesOrLeaves(From, To) ==
    LET sp == PosKey(From)
        gp == PosKey(To)
    IN  IF sp \in DOMAIN board_map /\ gp \in DOMAIN board_map
        THEN /\ board_map'[gp] = board_map[sp]
             /\ sp # gp => board_map'[sp] = NewCell
             /\ OthersUnchanged(sp, gp)
        ELSE board_map' = board_map

\* C2: a MovePiece(From, To) step on a board changes the board only if the packed
\* keys of From and To are both cells of it; then the destination ends with the
\* piece and colour the source held, every other cell is unchanged, and the source
\* ends empty unless it is the destination itself (the piece then stays where it
\* is); if either key is no cell the whole board is unchanged.
C2_MovePieceEffect ==
    [][\A From \in Positions, To \in Positions :
          (ActiveBoard = "board" /\ MovePiece(From, To)) => MovesOrLeaves(From, To)]_vars

\* C2 as stated: the source ends empty whenever both endpoints are cells
C2_SourceAlwaysEndsEmpty ==
    [][\A From \in Positions, To \in Positions :
          (ActiveBoard = "board" /\ MovePiece(From, To)) =>
              /\ MovesOrLeaves(From, To)
              /\ (PosKey(From) \in DOMAIN board_map /\ PosKey(To) \in DOMAIN board_map)
                     => board_map'[PosKey(From)] = NewCell]_vars

\* MovePiece has just carried a piece from one cell to another
C2_Witness ==
    /\ ret.op = "MovePiece"
    /\ ActiveBoard = "board"
    /\ PosKey(ret.from) \in DOMAIN board_map
    /\ PosKey(ret.to) \in DOMAIN board_map
    /\ PosKey(ret.from) # PosKey(ret.to)
    /\ has_piece(board_map[PosKey(ret.to)])
    /\ ~has_piece(board_map[PosKey(ret.from)])

\* C3: a query (GetMovesForCell, IsCellUnderAttack) for a position whose key is
\* no cell of the board completes without a fault, returns the empty list or
\* false, and leaves the board, its set of keys included, unchanged.
C3_InvalidKeyQueriesAreAbsorbed ==
    [][\A pos \in Positions :
          (ActiveBoard = "board" /\ PosKey(pos) \notin DOMAIN board_map) =>
              /\ GetMovesForCell(pos) =>
                     /\ ~fault'
                     /\ "value" \in DOMAIN ret' /\ ret'.value = <<>>
                     /\ board_map' = board_map
              /\ IsCellUnderAttack(pos) =>
                     /\ ~fault'
                     /\ "value" \in DOMAIN ret' /\ ret'.value = FALSE
                     /\ board_map' = board_map]_vars

\* the hexagon of the board: columns 0..10 of heights 6,7,8,9,10,11,10,9,8,7,6
ColumnHeights == <<6, 7, 8, 9, 10, 11, 10, 9, 8, 7, 6>>

HexCells == { <<x, y>> \in (0..10) \X (0..10) : y < ColumnHeights[x + 1] }

IsHexKey(k) == \E c \in HexCells : k = c[1] * 256 + c[2]

\* C4: every destination get_valid_moves returns for an occupied cell, filtered
\* or raw, is the key of one of the 91 cells of the hexagon.
C4_DestinationsAreCells ==
    (ret.op = "get_valid_moves" /\ "value" \in DOMAIN ret) =>
        \A k \in ToSet(ret.value) : IsHexKey(k)

\* a knight or king in the corner x = 0, y = 0 has been given its moves
C4_Witness ==
    /\ ret.op = "get_valid_moves"
    /\ "value" \in DOMAIN ret
    /\ ret.key = 0
    /\ board_map[ret.key].piece \in {"knight", "king"}
    /\ Len(ret.value) > 0

\* the values of the pieces in the sum of evaluate
MaterialValue(pt) ==
    CASE pt = "pawn"   -> 1
      [] pt = "knight" -> 3
      [] pt = "bishop" -> 3
      [] pt = "rook"   -> 5
      [] pt = "queen"  -> 9

\* what the piece on k counts for, a king that cannot be captured counting safe_king
Contribution(in_board, k, safe_king) ==
    LET sign == IF in_board[k].piece_color = "white" THEN 1 ELSE -1
    IN  IF in_board[k].piece = "king"
        THEN IF can_be_captured(in_board, in_board, k) THEN -sign * 100 ELSE sign * safe_king
        ELSE sign * MaterialValue(in_board[k].piece)

RECURSIVE Total(_, _, _)
Total(in_board, S, safe_king) ==
    IF S = {}
    THEN 0
    ELSE LET k == CHOOSE j \in S : TRUE
         IN  Contribution(in_board, k, safe_king) + Total(in_board, S \ {k}, safe_king)

\* C5: evaluate returns the sum over the pieces of +value for white and -value
\* for black with pawn 1, knight 3, bishop 3, rook 5, queen 9; a king counts 0,
\* unless the opponent can capture it: then it counts -100 (white king) or +100
\* (black king).
C5_EvaluateSum ==
    ret.op = "evaluate" => ret.value = Total(board_map, Occupied(board_map), 0)

\* C5 as stated: a king that cannot be captured counts its value 100
C5_SafeKingCounts100 ==
    ret.op = "evaluate" => ret.value = Total(board_map, Occupied(board_map), 100)

\* evaluate has scored a board with a king that can be captured, a king that
\* cannot, and a third piece
C5_Witness ==
    /\ ret.op = "evaluate"
    /\ \E k1, k2 \in Occupied(board_map) :
          /\ board_map[k1].piece = "king" /\ can_be_captured(board_map, board_map, k1)
          /\ board_map[k2].piece = "king" /\ ~can_be_captured(board_map, board_map, k2)
    /\ \E k \in Occupied(board_map) : board_map[k].piece # "king"

\* the board with every piece's colour swapped
SwapColors(in_board) ==
    [k \in DOMAIN in_board |->
        IF has_piece(in_board[k])
        THEN [piece |-> in_board[k].piece,
              piece_color |-> IF in_board[k].piece_color = "white" THEN "black" ELSE "white"]
        ELSE in_board[k]]

HoldsPiece(in_board, pt) == \E k \in DOMAIN in_board : in_board[k].piece = pt

\* C6: on a board without pawns, or without kings, evaluate of the board with
\* every piece's colour swapped is the negation of evaluate of the board.
C6_EvaluateAntisymmetric ==
    (ret.op = "evaluate" /\ (~HoldsPiece(board_map, "pawn") \/ ~HoldsPiece(board_map, "king"))) =>
        evaluate(SwapColors(board_map), SwapColors(board_map)) = -ret.value

\* C6 as stated: on every board, pawns and kings included
C6_AntisymmetricOnEveryBoard ==
    ret.op = "evaluate" =>
        evaluate(SwapColors(board_map), SwapColors(board_map)) = -ret.value

\* evaluate has scored a board without pawns on which a king can be captured
C6_Witness ==
    /\ ret.op = "evaluate"
    /\ ~HoldsPiece(board_map, "pawn")
    /\ ret.value # 0
    /\ \E k \in Occupied(board_map) :
          board_map[k].piece = "king" /\ can_be_captured(board_map, board_map, k)

\* the cell n steps from key in direction fn
RECURSIVE StepN(_, _, _)
StepN(fn, key, n) == IF n = 0 THEN key ELSE TMoveFn(fn, StepN(fn, key, n - 1))

\* no line of the board is longer than this
RayLength == max + 1

\* the cells a piece of the colour of cell, sliding from key in direction fn,
\* can go to: those reached over empty cells only, empty or held by the opponent
Ray(in_board, key, fn, cell) ==
    { StepN(fn, key, n) : n \in
        { m \in 1..RayLength :
            /\ \A i \in 1..m : StepN(fn, key, i) \in DOMAIN in_board
            /\ \A i \in 1..(m - 1) : ~has_piece(in_board[StepN(fn, key, i)])
            /\ \/ ~has_piece(in_board[StepN(fn, key, m)])
               \/ in_board[StepN(fn, key, m)].piece_color # cell.piece_color } }

SlidingFns(pt) ==
    CASE pt = "rook"   -> ToSet(rook_fns)
      [] pt = "bishop" -> ToSet(bishop_fns)
      [] pt = "queen"  -> ToSet(rook_fns) \cup ToSet(bishop_fns)
      [] OTHER         -> {}

\* C7: the raw destinations of a rook, bishop or queen are, for each of its
\* sliding directions, the consecutive empty cells from one step away, then the
\* first occupied cell if and only if its occupant has the opposite colour, and
\* nothing else; no destination is listed twice.
C7_SlidingRule ==
    (RawQueryDone /\ board_map[ret.key].piece \in {"rook", "bishop", "queen"}) =>
        LET cell == board_map[ret.key]
        IN  /\ ToSet(ret.value) =
                 UNION { Ray(board_map, ret.key, fn, cell) : fn \in SlidingFns(cell.piece) }
            /\ Cardinality(ToSet(ret.value)) = Len(ret.value)

\* a rook has been given raw moves that take an opponent's piece, while a piece of
\* its own colour stands next to it on one of its lines
C7_Witness ==
    /\ RawQueryDone
    /\ board_map[ret.key].piece = "rook"
    /\ \E k \in ToSet(ret.value) : has_piece(board_map[k])
    /\ \E fn \in ToSet(rook_fns) :
          /\ TMoveFn(fn, ret.key) \in DOMAIN board_map
          /\ board_map[TMoveFn(fn, ret.key)].piece_color = board_map[ret.key].piece_color

\* the fixed starting keys of the pawns of colour pc
StartKeys(pc) ==
    IF pc = "white" THEN ToSet(white_pawn_cell_keys) ELSE ToSet(black_pawn_cell_keys)

FreeCell(in_board, k) == k \in DOMAIN in_board /\ ~has_piece(in_board[k])

\* C8: the raw destinations of a pawn include the cell two steps forward if and
\* only if the pawn stands on a starting key of its colour and the cells one
\* and two steps forward are cells and empty; with the cell one step forward
\* occupied the pawn has neither the single nor the double step.
C8_PawnDoubleStep ==
    (RawQueryDone /\ board_map[ret.key].piece = "pawn") =>
        LET pc == board_map[ret.key].piece_color
            ahead1 == IF pc = "white" THEN ret.key + 1 ELSE ret.key - 1
            ahead2 == IF pc = "white" THEN ret.key + 2 ELSE ret.key - 2
        IN  /\ ahead2 \in ToSet(ret.value) <=>
                  /\ ret.key \in StartKeys(pc)
                  /\ FreeCell(board_map, ahead1)
                  /\ FreeCell(board_map, ahead2)
            /\ (ahead1 \in DOMAIN board_map /\ has_piece(board_map[ahead1])) =>
                  ahead1 \notin ToSet(ret.value) /\ ahead2 \notin ToSet(ret.value)

\* a pawn on a starting key of its colour has been given its single and its double step
C8_Witness ==
    /\ RawQueryDone
    /\ board_map[ret.key].piece = "pawn"
    /\ ret.key \in StartKeys(board_map[ret.key].piece_color)
    /\ \E d \in {-1, 1} : {ret.key + d, ret.key + 2 * d} \subseteq ToSet(ret.value)

\* the pieces that hold K in their raw moves and are not of the colour of the piece on K
Attackers(in_board, K) ==
    { j \in Occupied(in_board) :
        /\ has_piece(in_board[K])
        /\ in_board[j].piece_color # in_board[K].piece_color
        /\ K \in ToSet(RawMoves(in_board, j)) }

\* the board holds a white king on K, a black rook on r, and nothing else
KingAndRook(in_board, K, r) ==
    /\ Occupied(in_board) = {K, r}
    /\ in_board[K] = [piece |-> "king", piece_color |-> "white"]
    /\ in_board[r] = [piece |-> "rook", piece_color |-> "black"]

\* C9: can_be_captured(K) is true if and only if K is among the raw destinations
\* of the pieces of the colour opposite to the occupant of K; on a board with only
\* a white king on K and a black rook with a clear line to K it is true, and the
\* filtered moves of that king hold no cell the rook attacks once the king
\* stands there, the cells behind the king on the rook's line included.
C9_CapturableIffRawDestination ==
    /\ (ret.op = "can_be_captured" /\ "value" \in DOMAIN ret) =>
           /\ ret.value <=> Attackers(board_map, ret.key) # {}
           /\ \A r \in Occupied(board_map) :
                 (/\ KingAndRook(board_map, ret.key, r)
                  /\ \E fn \in ToSet(rook_fns) : ret.key \in Ray(board_map, r, fn, board_map[r]))
                     => ret.value
    /\ FilteredQueryDone =>
           \A r \in Occupied(board_map) :
               KingAndRook(board_map, ret.key, r) =>
                   \A k \in ToSet(ret.value) \ {r} :
                       LET after == move_piece(board_map, to_position(ret.key), to_position(k))
                       IN  \A fn \in ToSet(rook_fns) : k \notin Ray(after, r, fn, after[r])

\* the white king, attacked by the black rook, has been refused a cell that the
\* rook reaches only once the king has left its line
C9_Witness ==
    /\ FilteredQueryDone
    /\ \E r \in Occupied(board_map) :
          /\ KingAndRook(board_map, ret.key, r)
          /\ can_be_captured(board_map, board_map, ret.key)
          /\ \E k \in ToSet(RawMoves(board_map, ret.key)) \ ToSet(ret.value) :
                k \notin ToSet(RawMoves(board_map, r))

\* C10: with no king of the piece's colour on the board, the filtered
\* get_valid_moves returns the raw destinations of the piece, the same list
\* as with skip_filter = true.
C10_NoKingNoFilter ==
    (ret.op = "get_valid_moves" /\ ~ret.skip_filter
        /\ KingKeys(board_map, board_map[ret.key].piece_color) = {}) =>
        /\ ~fault
        /\ "value" \in DOMAIN ret
        /\ ret.value = get_valid_moves(board_map, board_map, ret.key, TRUE)

\* a piece without a king of its colour, the opponent's king on the board, has
\* been given its filtered moves
C10_Witness ==
    /\ FilteredQueryDone
    /\ KingKeys(board_map, board_map[ret.key].piece_color) = {}
    /\ HoldsPiece(board_map, "king")
    /\ Len(ret.value) > 0

\* GetMovesForCell has returned its list for a position that is a cell of the board
MovesForCellDone ==
    /\ ret.op = "GetMovesForCell"
    /\ "value" \in DOMAIN ret

\* C11: GetMovesForCell returns the empty list for an empty cell; for a piece
\* whose colour has no king on the board it returns the positions of the raw
\* destinations of the piece, which are not empty when the piece can move.
C11_EmptyCellEmptyNoKingRaw ==
    MovesForCellDone =>
        LET key == PosKey(ret.pos)
            cell == board_map[key]
        IN  /\ ~has_piece(cell) => ret.value = <<>>
            /\ (has_piece(cell) /\ KingKeys(board_map, cell.piece_color) = {}) =>
                   ToSet(ret.value) = { to_position(k) : k \in ToSet(RawMoves(board_map, key)) }

\* C11 as stated: the list is empty also when the piece's colour has no king
C11_EmptyWithoutKing ==
    MovesForCellDone =>
        LET key == PosKey(ret.pos)
            cell == board_map[key]
        IN  (~has_piece(cell) \/ KingKeys(board_map, cell.piece_color) = {}) => ret.value = <<>>

\* a piece whose colour has no king, on a board with two pieces, has been given moves
C11_Witness ==
    /\ MovesForCellDone
    /\ has_piece(board_map[PosKey(ret.pos)])
    /\ KingKeys(board_map, board_map[PosKey(ret.pos)].piece_color) = {}
    /\ Cardinality(Occupied(board_map)) = 2
    /\ Len(ret.value) > 0

(***************************************************************************)
(* SpecSources: get_possible_move_sources applied to the boards of         *)
(* SpecBoards, for the targets of Region and both colours.                 *)
(***************************************************************************)
NextSources ==
    \/ \E target \in Region, pc \in {"white", "black"} : GetPossibleMoveSources(target, pc)
    \/ Return

SpecSources == InitBoards /\ [][NextSources]_vars

\* C12: get_possible_move_sources(t, c) returns exactly the keys of the cells
\* that hold a piece of colour c with t among its destinations.
C12_SourcesArePiecesReachingTarget ==
    ret.op = "get_possible_move_sources" =>
        ToSet(ret.value) =
            { k \in Occupied(board_map) :
                /\ board_map[k].piece_color = ret.pc
                /\ ret.target \in ToSet(RawMoves(board_map, k)) }

\* the keys of the 91 cells of the hexagon
HexKeys == { c[1] * 256 + c[2] : c \in HexCells }

\* C13: a newly constructed board has exactly the 91 cells of the hexagon, all
\* empty, and after any sequence of RegisterPiece (set_piece) and MovePiece
\* (move_piece) calls, with valid or invalid positions, its key set is still
\* exactly these 91 cells.
C13_KeySetIsTheHexagon ==
    (ActiveBoard = "board" /\ ret.op \in {"StartGame", "RegisterPiece", "MovePiece"}) =>
        /\ DOMAIN board_map = HexKeys
        /\ Cardinality(DOMAIN board_map) = 91
        /\ ret.op = "StartGame" => \A k \in DOMAIN board_map : board_map[k] = NewCell

\* MovePiece has been called on a board with a piece, with a position that is no cell
C13_Witness ==
    /\ ActiveBoard = "board"
    /\ ret.op = "MovePiece"
    /\ PosKey(ret.from) \notin HexKeys \/ PosKey(ret.to) \notin HexKeys
    /\ Occupied(board_map) # {}

LongDiagonals ==
    { "move_diagonally_top_right", "move_diagonally_top_left",
      "move_diagonally_bottom_right", "move_diagonally_bottom_left" }

\* the steps that go two columns to the right or to the left
FarDiagonals == { "move_diagonally_right", "move_diagonally_left" }

\* C14: a bishop's raw destinations are the cells it reaches by sliding, until
\* blocked, along six directions: the four long diagonals (top-right, top-left,
\* bottom-right, bottom-left) and the two far diagonals that step two columns
\* to the right or to the left.
C14_BishopSixDirections ==
    (RawQueryDone /\ board_map[ret.key].piece = "bishop") =>
        ToSet(ret.value) =
            UNION { Ray(board_map, ret.key, fn, board_map[ret.key]) :
                        fn \in LongDiagonals \cup FarDiagonals }

\* C14 as stated: the destinations lie along the four long diagonals only
C14_BishopFourDirections ==
    (RawQueryDone /\ board_map[ret.key].piece = "bishop") =>
        ToSet(ret.value) \subseteq
            UNION { Ray(board_map, ret.key, fn, board_map[ret.key]) : fn \in LongDiagonals }

\* a bishop has been given a cell two columns to its right, which none of the
\* four long diagonals reaches
C14_Witness ==
    /\ RawQueryDone
    /\ board_map[ret.key].piece = "bishop"
    /\ move_diagonally_right(ret.key) \in ToSet(ret.value)
    /\ move_diagonally_right(ret.key) \notin
           UNION { Ray(board_map, ret.key, fn, board_map[ret.key]) : fn \in LongDiagonals }

\* the two cells diagonally forward of a pawn of colour pc on key
DiagonalForward(key, pc) ==
    IF pc = "white"
    THEN { move_horizontally_top_left(key), move_horizontally_top_right(key) }
    ELSE { move_horizontally_bottom_left(key), move_horizontally_bottom_right(key) }

\* C15: a pawn's raw destinations hold the cell straight ahead (up for white,
\* down for black) exactly when that cell is empty, each of the two cells
\* diagonally forward exactly when a piece of the opposite colour stands on
\* it, and beside these only the cell two steps straight ahead.
C15_PawnSteps ==
    (RawQueryDone /\ board_map[ret.key].piece = "pawn") =>
        LET pc == board_map[ret.key].piece_color
            ahead == IF pc = "white" THEN ret.key + 1 ELSE ret.key - 1
            ahead2 == IF pc = "white" THEN ret.key + 2 ELSE ret.key - 2
        IN  /\ ahead \in ToSet(ret.value) <=> FreeCell(board_map, ahead)
            /\ \A d \in DiagonalForward(ret.key, pc) :
                  d \in ToSet(ret.value) <=>
                      /\ d \in DOMAIN board_map
                      /\ has_piece(board_map[d])
                      /\ board_map[d].piece_color # pc
            /\ ToSet(ret.value) \subseteq {ahead, ahead2} \cup DiagonalForward(ret.key, pc)

\* a pawn with a piece straight ahead has been given a capture diagonally forward
\* and nothing else
C15_Witness ==
    /\ RawQueryDone
    /\ board_map[ret.key].piece = "pawn"
    /\ ret.value # <<>>
    /\ ToSet(ret.value) \subseteq DiagonalForward(ret.key, board_map[ret.key].piece_color)
    /\ LET ahead == IF board_map[ret.key].piece_color = "white" THEN ret.key + 1
                                                                 ELSE ret.key - 1
       IN  ahead \in DOMAIN board_map /\ has_piece(board_map[ahead])

(***************************************************************************)
(* C17: the search against the search without pruning                      *)
(***************************************************************************)
\* the search is not asked to look further ahead than this
MaxDepth == 3

\* MiniMax called on the board, with the window that covers all scores
MiniMaxCall(Depth, IsWhitePlayer) ==
    /\ Idle
    /\ ActiveBoard = "board"
    /\ ret' = [op |-> "MiniMax", Depth |-> Depth, IsWhitePlayer |-> IsWhitePlayer,
                value |-> MiniMax(board_map, board_map, Depth, IsWhitePlayer,
                                  -ScoreInfinity, ScoreInfinity)]
    /\ UNCHANGED <<ActiveBoard, board_map, fault, ai>>

SearchPieces == { p \in Pieces : p.piece \in {"pawn", "knight", "king"} }

InitSearch ==
    /\ ActiveBoard = "board"
    /\ board_map \in
         UNION { { [k \in BoardKeys |-> IF k \in S THEN f[k] ELSE NewCell] :
                     f \in [S -> SearchPieces] } :
                 S \in { T \in SUBSET Region : Cardinality(T) <= MaxPieces } }
    /\ fault = FALSE
    /\ ret = [op |-> "none"]
    /\ ai = [pc |-> "idle"]

NextSearch ==
    \/ \E Depth \in 0..MaxDepth, IsWhitePlayer \in BOOLEAN : MiniMaxCall(Depth, IsWhitePlayer)
    \/ Return

SpecSearch == InitSearch /\ [][NextSearch]_vars

\* minimax without pruning: every child of every node is searched
RECURSIVE PlainMiniMax(_, _, _, _)
RECURSIVE PlainMiniMaxLoop(_, _, _, _, _, _, _)
PlainMiniMaxLoop(this_map, in_board, Depth, IsWhitePlayer, moves, i, best) ==
    IF i > Len(moves)
    THEN best
    ELSE LET child == PlainMiniMax(this_map, ChildBoard(in_board, moves[i]),
                                   Depth - 1, ~IsWhitePlayer)
         IN  PlainMiniMaxLoop(this_map, in_board, Depth, IsWhitePlayer, moves, i + 1,
                              IF Improves(IsWhitePlayer, child, best)
                              THEN MoveResult(moves[i][1], moves[i][2], child.Score)
                              ELSE best)

PlainMiniMax(this_map, in_board, Depth, IsWhitePlayer) ==
    IF Depth = 0
    THEN MoveResult(-1, -1, evaluate(this_map, in_board))
    ELSE LET moves == SearchMoves(this_map, in_board, IsWhitePlayer)
         IN  IF moves = <<>>
             THEN MoveResult(-1, -1, WorstScore(IsWhitePlayer))
             ELSE PlainMiniMaxLoop(this_map, in_board, Depth, IsWhitePlayer, moves, 1,
                                   MoveResult(-1, -1, WorstScore(IsWhitePlayer)))

\* C17: for every board, depth and side to move, the search with alpha-beta pruning
\* returns the move and the score the search without pruning returns
C17_AlphaBetaEqualsMinimax ==
    ret.op = "MiniMax" =>
        ret.value = PlainMiniMax(board_map, board_map, ret.Depth, ret.IsWhitePlayer)

\* some node of the search leaves children unsearched: the loop of MiniMax stops on
\* Beta <= Alpha before the last move
RECURSIVE Cuts(_, _, _, _, _, _)
RECURSIVE CutsLoop(_, _, _, _, _, _, _, _, _)
CutsLoop(this_map, in_board, Depth, IsWhitePlayer, Alpha, Beta, moves, i, best) ==
    IF i > Len(moves)
    THEN FALSE
    ELSE LET child == MiniMax(this_map, ChildBoard(in_board, moves[i]),
                              Depth - 1, ~IsWhitePlayer, Alpha, Beta)
             newBest == IF Improves(IsWhitePlayer, child, best)
                        THEN MoveResult(moves[i][1], moves[i][2], child.Score)
                        ELSE best
             newAlpha == IF IsWhitePlayer /\ newBest.Score > Alpha THEN newBest.Score ELSE Alpha
             newBeta == IF ~IsWhitePlayer /\ newBest.Score < Beta THEN newBest.Score ELSE Beta
         IN  \/ Cuts(this_map, ChildBoard(in_board, moves[i]), Depth - 1, ~IsWhitePlayer, Alpha, Beta)
             \/ IF newBeta <= newAlpha
                THEN i < Len(moves)
                ELSE CutsLoop(this_map, in_board, Depth, IsWhitePlayer,
                              newAlpha, newBeta, moves, i + 1, newBest)

Cuts(this_map, in_board, Depth, IsWhitePlayer, Alpha, Beta) ==
    /\ Depth > 0
    /\ CutsLoop(this_map, in_board, Depth, IsWhitePlayer, Alpha, Beta,
                SearchMoves(this_map, in_board, IsWhitePlayer), 1,
                MoveResult(-1, -1, WorstScore(IsWhitePlayer)))

\* a search two plies deep or deeper has pruned a subtree and has chosen a move
C17_Witness ==
    /\ ret.op = "MiniMax"
    /\ ret.Depth >= 2
    /\ ret.value.FromKey # -1
    /\ Cuts(board_map, board_map, ret.Depth, ret.IsWhitePlayer, -ScoreInfinity, ScoreInfinity)

(***************************************************************************)
(* AI move requests (AChessGod::MakeAIMove)                                *)
(***************************************************************************)
\* MakeAIMove is not asked for a difficulty above this one (0 is the first
\* entry of AIDifficultyDepths)
MaxDifficulty == 0

\* CalculateMinMaxAIMove: the depth of each EAIDifficulty
AIDifficultyDepths == <<2, 3, 4>>

\* what MakeAIMove returns to its caller: Result, and the arguments
\* OnAIFinishedCalculatingMove was broadcast with (<<>> when it was not)
AIReturn(IsWhiteAI, AIType, Result, Broadcast) ==
    [op |-> "MakeAIMove", IsWhiteAI |-> IsWhiteAI, AIType |-> AIType,
     value |-> Result, broadcast |-> Broadcast]

\* the game thread is not inside a call and no AI computation is under way
NoRequest == Idle /\ ActiveBoard = "board" /\ ai.pc = "idle"

\* MakeAIMove(IsWhiteAI, EAIType::Random, _) up to the loop of CalculateRandomAIMove:
\* with no piece of the colour it logs an error and returns the empty Result
MakeAIMoveRandom(IsWhiteAI) ==
    /\ NoRequest
    /\ LET PieceKeys == get_piece_keys(board_map, PlayerColor(IsWhiteAI))
       IN  IF Len(PieceKeys) = 0
           THEN /\ ret' = AIReturn(IsWhiteAI, "Random", <<>>, <<>>)
                /\ UNCHANGED ai
           ELSE /\ ai' = [pc |-> "random_pick", IsWhiteAI |-> IsWhiteAI, PieceKeys |-> PieceKeys]
                /\ UNCHANGED ret
    /\ UNCHANGED <<ActiveBoard, board_map, fault>>

\* the loop of CalculateRandomAIMove: RandomIndex is drawn and the piece looked up
RandomPick(RandomIndex) ==
    /\ ~fault
    /\ ai.pc = "random_pick"
    /\ RandomIndex \in 0..(Len(ai.PieceKeys) - 1)
    /\ ai' = [pc |-> "random_test", IsWhiteAI |-> ai.IsWhiteAI, PieceKeys |-> ai.PieceKeys,
               RandomPieceKey |-> ai.PieceKeys[RandomIndex + 1]]
    /\ UNCHANGED <<ActiveBoard, board_map, fault, ret>>

\* the moves of the piece drawn: ActiveBoard->get_valid_moves(RandomPieceKey)
RandomPieceMoves == get_valid_moves(board_map, board_map, ai.RandomPieceKey, FALSE)

\* the loop of CalculateRandomAIMove: the piece drawn has no move, foundValidMove
\* stays false and the loop goes round
RandomRetry ==
    /\ ~fault
    /\ ai.pc = "random_test"
    /\ Len(RandomPieceMoves) = 0
    /\ ai' = [pc |-> "random_pick", IsWhiteAI |-> ai.IsWhiteAI, PieceKeys |-> ai.PieceKeys]
    /\ UNCHANGED <<ActiveBoard, board_map, fault, ret>>

\* the loop of CalculateRandomAIMove: the piece drawn has moves, one is drawn, the
\* loop ends, Result is broadcast and returned
RandomFound(RandomMoveIndex) ==
    /\ ~fault
    /\ ai.pc = "random_test"
    /\ RandomMoveIndex \in 0..(Len(RandomPieceMoves) - 1)
    /\ LET Result == << to_position(ai.RandomPieceKey),
                        to_position(RandomPieceMoves[RandomMoveIndex + 1]) >>
       IN  ret' = AIReturn(ai.IsWhiteAI, "Random", Result, Result)
    /\ ai' = [pc |-> "idle"]
    /\ UNCHANGED <<ActiveBoard, board_map, fault>>

\* MakeAIMove(IsWhiteAI, EAIType::Copycat, _): CalculateCopycatAIMove returns the
\* empty Result
MakeAIMoveCopycat(IsWhiteAI) ==
    /\ NoRequest
    /\ ret' = AIReturn(IsWhiteAI, "Copycat", <<>>, <<>>)
    /\ UNCHANGED <<ActiveBoard, board_map, fault, ai>>

\* MakeAIMove(IsWhiteAI, EAIType::MinMax, AIDifficulty): StartCalculatingMove is handed
\* ActiveBoard, the search starts on a copy of its board_map taken now, and the
\* empty Result is returned at once
MakeAIMoveMinMax(IsWhiteAI, AIDifficulty) ==
    /\ NoRequest
    /\ ai' = [pc |-> "search", IsWhiteAI |-> IsWhiteAI,
               Depth |-> AIDifficultyDepths[AIDifficulty + 1],
               in_board |-> copy_board_map(board_map)]
    /\ ret' = AIReturn(IsWhiteAI, "MinMax", <<>>, <<>>)
    /\ UNCHANGED <<ActiveBoard, board_map, fault>>

\* the search thread: MiniMax runs on the search's own in_board, by calls on
\* ActiveBoard, the live Board, and the result is delivered; moves is the list of
\* moves its root node works through
SearchRun ==
    /\ ~fault
    /\ ai.pc = "search"
    /\ ai' = [pc |-> "delivered", IsWhiteAI |-> ai.IsWhiteAI, Depth |-> ai.Depth,
               in_board |-> ai.in_board,
               moves |-> SearchMoves(board_map, ai.in_board, ai.IsWhiteAI),
               result |-> MiniMax(board_map, ai.in_board, ai.Depth, ai.IsWhiteAI,
                                  -ScoreInfinity, ScoreInfinity)]
    /\ UNCHANGED <<ActiveBoard, board_map, fault, ret>>

\* a search is under way
Searching == ai.pc = "search"

AIPieces == { p \in Pieces : p.piece \in {"pawn", "king"} }

RegionPositions == { to_position(k) : k \in Region }

InitAI ==
    /\ ActiveBoard = "board"
    /\ board_map \in
         UNION { { [k \in BoardKeys |-> IF k \in S THEN f[k] ELSE NewCell] :
                     f \in [S -> AIPieces] } :
                 S \in { T \in SUBSET Region : Cardinality(T) <= MaxPieces } }
    /\ fault = FALSE
    /\ ret = [op |-> "none"]
    /\ ai = [pc |-> "idle"]

\* one AI request at a time; the game goes on while a search runs, by one move
NextAI ==
    \/ \E IsWhiteAI \in BOOLEAN : MakeAIMoveRandom(IsWhiteAI)
    \/ \E RandomIndex \in 0..MaxPieces : RandomPick(RandomIndex)
    \/ RandomRetry
    \/ \E RandomMoveIndex \in 0..Cardinality(BoardKeys) : RandomFound(RandomMoveIndex)
    \/ \E IsWhiteAI \in BOOLEAN : MakeAIMoveCopycat(IsWhiteAI)
    \/ \E IsWhiteAI \in BOOLEAN, AIDifficulty \in 0..MaxDifficulty :
          MakeAIMoveMinMax(IsWhiteAI, AIDifficulty)
    \/ SearchRun
    \/ \E From \in RegionPositions, To \in RegionPositions :
          Searching /\ board_map = ai.in_board /\ MovePiece(From, To)
    \/ Return

SpecAI == InitAI /\ [][NextAI]_vars

\* C16: a search reads nothing but the copy it was started on: the moves its root
\* node lists and the result it delivers are those the copy alone gives, whatever
\* the game has done to the live board since the request
C16_SearchReadsOnlyItsCopy ==
    ai.pc = "delivered" =>
        /\ ai.moves = SearchMoves(ai.in_board, ai.in_board, ai.IsWhiteAI)
        /\ ai.result = MiniMax(ai.in_board, ai.in_board, ai.Depth, ai.IsWhiteAI,
                               -ScoreInfinity, ScoreInfinity)

\* the Result that stands for "no move": from = -1 and to = -1
NoMoveResult == << <<-1, -1>>, <<-1, -1>> >>

\* C18: MakeAIMove for a colour without a piece on the board ends without a fault
\* and delivers the no-move result: Random and Copycat in what they return or
\* broadcast, MinMax in what the search delivers
C18_NoPiecesDeliversNoMove ==
    /\ ~fault
    /\ ( /\ ret.op = "MakeAIMove"
         /\ ret.AIType \in {"Random", "Copycat"}
         /\ get_piece_keys(board_map, PlayerColor(ret.IsWhiteAI)) = <<>> )
       => (ret.value = NoMoveResult \/ ret.broadcast = NoMoveResult)
    /\ ( /\ ai.pc = "delivered"
         /\ get_piece_keys(ai.in_board, PlayerColor(ai.IsWhiteAI)) = <<>> )
       => (ai.result.FromKey = -1 /\ ai.result.ToKey = -1)

(***************************************************************************)
(* C19: the loop of CalculateRandomAIMove                                  *)
(***************************************************************************)
NextRandom ==
    \/ \E IsWhiteAI \in BOOLEAN : MakeAIMoveRandom(IsWhiteAI)
    \/ \E RandomIndex \in 0..MaxPieces : RandomPick(RandomIndex)
    \/ RandomRetry
    \/ \E RandomMoveIndex \in 0..Cardinality(BoardKeys) : RandomFound(RandomMoveIndex)
    \/ Return

\* the game thread keeps running the loop it is in, and FMath::RandRange draws every
\* index again and again
SpecRandomFair ==
    /\ InitAI
    /\ [][NextRandom]_vars
    /\ \A RandomIndex \in 0..MaxPieces : SF_vars(RandomPick(RandomIndex))
    /\ WF_vars(RandomRetry)
    /\ WF_vars(\E RandomMoveIndex \in 0..Cardinality(BoardKeys) : RandomFound(RandomMoveIndex))

\* C19: the selection of the random AI always ends: once CalculateRandomAIMove is in
\* its loop, MakeAIMove returns, with a move or with the no-move result
C19_RandomSelectionReturns ==
    (ai.pc = "random_pick") ~> (ret.op = "MakeAIMove")

(***************************************************************************)
(* C20: what Board::set_piece and Board::move_piece return                 *)
(***************************************************************************)
\* Board::set_piece(pos, pt, pc) on the live board
SetPiece(pos, pt, pc) ==
    /\ Idle
    /\ ActiveBoard = "board"
    /\ LET after == set_piece(board_map, pos, pt, pc)
       IN  /\ Cardinality(Occupied(after)) <= MaxPieces
           /\ board_map' = after
    /\ ret' = [op |-> "set_piece", pos |-> pos,
                value |-> set_piece_result(board_map, pos, pt, pc)]
    /\ UNCHANGED <<ActiveBoard, fault, ai>>

\* Board::move_piece(start, goal) on the live board
BoardMovePiece(start, goal) ==
    /\ Idle
    /\ ActiveBoard = "board"
    /\ board_map' = move_piece(board_map, start, goal)
    /\ ret' = [op |-> "move_piece", start |-> start, goal |-> goal,
                value |-> move_piece_result(board_map, start, goal)]
    /\ UNCHANGED <<ActiveBoard, fault, ai>>

\* the Board as Board::Board leaves it
InitMutators ==
    /\ ActiveBoard = "board"
    /\ board_map = EmptyBoard
    /\ fault = FALSE
    /\ ret = [op |-> "none"]
    /\ ai = [pc |-> "idle"]

NextMutators ==
    \/ \E pos \in Positions, p \in AIPieces : SetPiece(pos, p.piece, p.piece_color)
    \/ \E start \in Positions, goal \in Positions : BoardMovePiece(start, goal)
    \/ Return

SpecMutators == InitMutators /\ [][NextMutators]_vars

\* C20: the bool set_piece and move_piece return is true exactly when every position
\* of the call is a cell of the board, the case in which the call changes the board
C20_ReturnReportsSuccess ==
    /\ ret.op = "set_piece" =>
          (ret.value <=> is_valid_position(board_map, PosKey(ret.pos)))
    /\ ret.op = "move_piece" =>
          (ret.value <=> ( /\ is_valid_position(board_map, PosKey(ret.start))
                           /\ is_valid_position(board_map, PosKey(ret.goal)) ))

(***************************************************************************)
(* C21: get_valid_moves asked about a board that is not the live one        *)
(***************************************************************************)
\* Board::get_valid_moves(in_board, key) called on the live Board for the board
\* in_board, with the filter on
GetValidMovesOn(in_board, key) ==
    /\ Idle
    /\ ActiveBoard = "board"
    /\ ret' = [op |-> "get_valid_moves", in_board |-> in_board, key |-> key,
                value |-> get_valid_moves(board_map, in_board, key, FALSE)]
    /\ UNCHANGED <<ActiveBoard, board_map, fault, ai>>

InitFilter ==
    /\ ActiveBoard = "board"
    /\ board_map \in
         UNION { BoardsOn(S) : S \in { T \in SUBSET Region : Cardinality(T) <= MaxPieces } }
    /\ fault = FALSE
    /\ ret = [op |-> "none"]
    /\ ai = [pc |-> "idle"]

\* in_board is the live board after one move, as the board of a child node of the
\* search is
NextFilter ==
    \/ \E From \in RegionPositions, To \in RegionPositions :
          LET in_board == move_piece(copy_board_map(board_map), From, To)
          IN  \E key \in Occupied(in_board) : GetValidMovesOn(in_board, key)
    \/ Return

SpecFilter == InitFilter /\ [][NextFilter]_vars

\* C21: the filtered moves of a piece of in_board are those in_board alone gives,
\* whatever the live board holds
C21_FilterDependsOnlyOnInBoard ==
    ret.op = "get_valid_moves" /\ "in_board" \in DOMAIN ret =>
        ret.value = get_valid_moves(ret.in_board, ret.in_board, ret.key, FALSE)

(***************************************************************************)
(* C22: the Cell objects behind the maps of Cell*                           *)
(***************************************************************************)
\* cells is the memory of Cell objects, a function from the addresses allocated to
\* the Cell at each; a map of Cell* is a function from keys to addresses. The Cell
\* of key k of the live board is at address k, and the Cell the n-th copy made
\* during an operation allocates for key k is at address n * CopyBase + k
CopyBase == 65536

LiveMap(in_board) == [k \in DOMAIN in_board |-> k]

\* what a read through a pointer to a deleted Cell is taken to give
FreedCell == [piece |-> "freed", piece_color |-> "freed"]

Deref(cells, a) == IF a \in DOMAIN cells THEN cells[a] ELSE FreedCell

\* the board a map of Cell* shows
View(cells, map) == [k \in DOMAIN map |-> Deref(cells, map[k])]

Pointees(map) == { map[k] : k \in DOMAIN map }

\* a copy that takes over the pointers: board_map_copy[key] = cell
copy_board_map_Shallow(cells, map, n) == [cells |-> cells, map |-> map]

\* copy_board_map(): board_map_copy[key] = new Cell(*cell) for every entry of map
copy_board_map_cells(cells, map, n) ==
    LET board_map_copy == [k \in DOMAIN map |-> n * CopyBase + k]
    IN  [cells |-> [a \in DOMAIN cells \cup Pointees(board_map_copy) |->
                      IF a \in DOMAIN cells THEN cells[a] ELSE Deref(cells, map[a % CopyBase])],
         map |-> board_map_copy]

\* move_piece on a map of Cell*: remove_piece and set_piece write the cells the map
\* points to
move_piece_cells(cells, map, start, goal) ==
    LET after == move_piece(View(cells, map), start, goal)
    IN  [a \in DOMAIN cells |->
           IF a \in Pointees(map)
           THEN after[CHOOSE k \in DOMAIN map : map[k] = a]
           ELSE cells[a]]

\* clear_board_map: delete pair.second for every entry
clear_board_map_cells(cells, map) == [a \in DOMAIN cells \ Pointees(map) |-> cells[a]]

\* one round of the filtering loop of get_valid_moves, for candidate l[i], as it acts
\* on the memory: a copy is made, the move is made on it, the copy is cleared
FilterRoundCells(cells, map, key, l, i) ==
    LET board_copy == copy_board_map_cells(cells, map, i)
        moved == move_piece_cells(board_copy.cells, board_copy.map,
                                  to_position(key), to_position(l[i]))
    IN  clear_board_map_cells(moved, board_copy.map)

\* the rounds for l[lo..hi], one after the other (the range is split in two halves,
\* which runs the same rounds in the same order; the test of DOMAIN cells makes the
\* memory be worked out before the next rounds start, and with no Cell left
\* allocated there is no board to work on)
RECURSIVE FilterLoopCells(_, _, _, _, _, _)
FilterLoopCells(cells, map, key, l, lo, hi) ==
    IF lo > hi \/ DOMAIN cells = {}
    THEN cells
    ELSE IF lo = hi
    THEN FilterRoundCells(cells, map, key, l, lo)
    ELSE LET mid == (lo + hi) \div 2
         IN  FilterLoopCells(FilterLoopCells(cells, map, key, l, lo, mid),
                             map, key, l, mid + 1, hi)

\* the memory after get_valid_moves(board_map, key, skip_filter)
get_valid_moves_cells(cells, map, key, skip_filter) ==
    LET in_board == View(cells, map)
        king_key == FindKing(in_board, get_piece_keys(in_board, in_board[key].piece_color))
    IN  IF skip_filter \/ king_key = -1
        THEN cells
        ELSE LET l == RawMoves(in_board, key)
             IN  FilterLoopCells(cells, map, key, l, 1, Len(l))

\* the memory after get_all_piece_move_keys(board_map, pc, skip_filter): the calls of
\* get_valid_moves for all_piece_keys[lo..hi], one after the other
RECURSIVE get_all_piece_move_keys_cells(_, _, _, _, _, _)
get_all_piece_move_keys_cells(cells, map, all_piece_keys, lo, hi, skip_filter) ==
    IF lo > hi \/ DOMAIN cells = {}
    THEN cells
    ELSE IF lo = hi
    THEN get_valid_moves_cells(cells, map, all_piece_keys[lo], skip_filter)
    ELSE LET mid == (lo + hi) \div 2
         IN  get_all_piece_move_keys_cells(
                 get_all_piece_move_keys_cells(cells, map, all_piece_keys, lo, mid, skip_filter),
                 map, all_piece_keys, mid + 1, hi, skip_filter)

\* get_all_piece_move_keys_cells for every piece of colour pc
AllPieceCells(in_board, pc, skip_filter) ==
    LET all_piece_keys == get_piece_keys(in_board, pc)
    IN  get_all_piece_move_keys_cells(in_board, LiveMap(in_board), all_piece_keys,
                                      1, Len(all_piece_keys), skip_filter)

\* a read-only call has returned: the live board as the memory now holds it, and
\* the cells still allocated beside those of the live board
ReadOnlyCall(r, cells) ==
    /\ Idle
    /\ ActiveBoard = "board"
    /\ board_map' = [k \in DOMAIN board_map |-> Deref(cells, k)]
    /\ ret' = [op |-> r.op, args |-> r.args, value |-> r.value,
                allocated |-> DOMAIN cells \ DOMAIN board_map]
    /\ UNCHANGED <<ActiveBoard, fault, ai>>

\* Board::get_valid_moves(key): the filter is on
GetValidMovesCells(key) ==
    ReadOnlyCall([op |-> "get_valid_moves", args |-> <<key>>,
                  value |-> get_valid_moves(board_map, board_map, key, FALSE)],
                 get_valid_moves_cells(board_map, LiveMap(board_map), key, FALSE))

\* Board::get_all_piece_move_keys(pc, skip_filter)
GetAllPieceMoveKeysCells(pc, skip_filter) ==
    ReadOnlyCall([op |-> "get_all_piece_move_keys", args |-> <<pc, skip_filter>>,
                  value |-> get_all_piece_move_keys(board_map, board_map, pc, skip_filter)],
                 AllPieceCells(board_map, pc, skip_filter))

\* Board::are_there_valid_moves(pc): get_all_piece_move_keys(board_map, pc)
AreThereValidMovesCells(pc) ==
    ReadOnlyCall([op |-> "are_there_valid_moves", args |-> <<pc>>,
                  value |-> are_there_valid_moves(board_map, board_map, pc)],
                 AllPieceCells(board_map, pc, FALSE))

\* Board::can_be_captured(key): get_all_piece_move_keys(board_map, pc, true)
CanBeCapturedCells(key) ==
    ReadOnlyCall([op |-> "can_be_captured", args |-> <<key>>,
                  value |-> can_be_captured(board_map, board_map, key)],
                 AllPieceCells(board_map, get_opposite_color(board_map[key]), TRUE))

\* Board::evaluate(board_map): its can_be_captured calls make no copy
EvaluateCells ==
    ReadOnlyCall([op |-> "evaluate", args |-> <<>>, value |-> evaluate(board_map, board_map)],
                 board_map)

NextCells ==
    \/ \E key \in Occupied(board_map) \cup Region : GetValidMovesCells(key)
    \/ \E pc \in {"white", "black"}, skip_filter \in BOOLEAN :
          GetAllPieceMoveKeysCells(pc, skip_filter)
    \/ \E pc \in {"white", "black"} : AreThereValidMovesCells(pc)
    \/ \E key \in Occupied(board_map) \cup Region : CanBeCapturedCells(key)
    \/ EvaluateCells
    \/ Return

SpecCells == InitFilter /\ [][NextCells]_vars

\* C22: a call of get_valid_moves (filtered), get_all_piece_move_keys,
\* are_there_valid_moves, can_be_captured or evaluate with a valid position leaves
\* every cell of the live board as it was, and no Cell of a copy is still allocated
\* when it returns
C22_ReadOnlyCallsKeepTheBoard ==
    [][ret'.op # "none" => (board_map' = board_map /\ ret'.allocated = {})]_vars

\* the filter has tried several candidates of a piece, each on a copy of its own,
\* and has dropped some of them
C22_Witness ==
    /\ ret.op = "get_valid_moves"
    /\ Len(ret.value) >= 2
    /\ Len(ret.value) < Len(RawMoves(board_map, ret.args[1]))

(***************************************************************************)
(* C23: the direction functions                                            *)
(***************************************************************************)
MoveFns ==
    { "move_vertically_up", "move_vertically_down",
      "move_horizontally_top_right", "move_horizontally_top_left",
      "move_horizontally_bottom_right", "move_horizontally_bottom_left",
      "move_diagonally_top_right", "move_diagonally_top_left",
      "move_diagonally_bottom_right", "move_diagonally_bottom_left",
      "move_diagonally_right", "move_diagonally_left" }

\* a direction function is called with the key of a cell
MoveFnCall(fn, key) ==
    /\ Idle
    /\ ActiveBoard = "board"
    /\ ret' = [op |-> "TMoveFn", fn |-> fn, key |-> key, value |-> TMoveFn(fn, key)]
    /\ UNCHANGED <<ActiveBoard, board_map, fault, ai>>

NextMoveFns ==
    \/ \E fn \in MoveFns, key \in DOMAIN board_map : MoveFnCall(fn, key)
    \/ Return

SpecMoveFns == InitMutators /\ [][NextMoveFns]_vars

\* the direction that undoes fn
Opposite(fn) ==
    CASE fn = "move_vertically_up"             -> "move_vertically_down"
      [] fn = "move_vertically_down"           -> "move_vertically_up"
      [] fn = "move_horizontally_top_right"    -> "move_horizontally_bottom_left"
      [] fn = "move_horizontally_bottom_left"  -> "move_horizontally_top_right"
      [] fn = "move_horizontally_top_left"     -> "move_horizontally_bottom_right"
      [] fn = "move_horizontally_bottom_right" -> "move_horizontally_top_left"
      [] fn = "move_diagonally_top_right"      -> "move_diagonally_bottom_left"
      [] fn = "move_diagonally_bottom_left"    -> "move_diagonally_top_right"
      [] fn = "move_diagonally_top_left"       -> "move_diagonally_bottom_right"
      [] fn = "move_diagonally_bottom_right"   -> "move_diagonally_top_left"
      [] fn = "move_diagonally_right"          -> "move_diagonally_left"
      [] fn = "move_diagonally_left"           -> "move_diagonally_right"

\* C23: for every cell k and direction d with d(k) a cell, the opposite direction
\* leads from d(k) back to k
C23_DirectionsAreInversePairs ==
    (ret.op = "TMoveFn" /\ is_valid_position(board_map, ret.value)) =>
        TMoveFn(Opposite(ret.fn), ret.value) = ret.key

\* a far diagonal step to the left that starts on the median column and ends on a cell
C23_Witness ==
    /\ ret.op = "TMoveFn"
    /\ ret.fn = "move_diagonally_left"
    /\ get_x(ret.key) = median
    /\ is_valid_position(board_map, ret.value)

(***************************************************************************)
(* C24: the life of the Board instance                                     *)
(***************************************************************************)
\* the calls of AChessGod that go through ActiveBoard
BoardCalls == {"RegisterPiece", "GetMovesForCell", "MovePiece", "IsCellUnderAttack"}

\* C24: at most one Board instance is alive at any time (no StartGame leaves an
\* earlier Board allocated), and no board operation is executed while ActiveBoard
\* is null
C24_OneBoardAndNoNullCalls ==
    /\ ret.op = "StartGame" => ~ret.leaked
    /\ ret.op \in BoardCalls => ActiveBoard # "nullptr"

(***************************************************************************)
(* C25: boards built with RegisterPiece and MovePiece                      *)
(***************************************************************************)
\* TeamID is an int32: 0 is white, every other value black
AnyTeamIDs == TeamIDs \cup {-1, 7}

NextPlacement ==
    \/ \E pos \in Positions, Type \in EPieceType, TeamID \in AnyTeamIDs :
          RegisterPiece(pos[1], pos[2], Type, TeamID)
    \/ \E From \in Positions, To \in Positions : MovePiece(From, To)
    \/ Return

SpecPlacement == InitMutators /\ [][NextPlacement]_vars

\* C25: on every board built from the empty one with RegisterPiece and MovePiece a
\* cell has piece type none exactly when its colour is absent, and the keys
\* get_piece_keys lists for white and for black are exactly the occupied cells
C25_TypeAndColourAgree ==
    /\ \A k \in DOMAIN board_map :
          (board_map[k].piece = "none") <=> (board_map[k].piece_color = "absent")
    /\ ToSet(get_piece_keys(board_map, "white")) \cup ToSet(get_piece_keys(board_map, "black"))
          = Occupied(board_map)

\* MovePiece has carried a black pawn from one cell to another while a white piece
\* stands on the board
C25_Witness ==
    /\ ret.op = "MovePiece"
    /\ PosKey(ret.from) # PosKey(ret.to)
    /\ PosKey(ret.from) \in DOMAIN board_map
    /\ PosKey(ret.to) \in DOMAIN board_map
    /\ board_map[PosKey(ret.from)] = NewCell
    /\ board_map[PosKey(ret.to)] = [piece |-> "pawn", piece_color |-> "black"]
    /\ get_piece_keys(board_map, "white") # <<>>

====
